---- MODULE Spec2Model ----
(***************************************************************************)
(* cargo-extract-readme: src/main.rs.                                      *)
(*                                                                         *)
(* main() opens the output sink, builds and reads the rustdoc JSON, takes  *)
(* the root item's docs, and drives pulldown_cmark events one at a time    *)
(* through two rewrites (untyped fence -> "rust", doctest "# " lines       *)
(* dropped inside code blocks) into pulldown_cmark_to_cmark::cmark_resume, *)
(* threading its State, and ends with State::finalize.                     *)
(***************************************************************************)
EXTENDS Integers, Sequences, FiniteSets, TLC

VARIABLES
    pc,             \* position in main()
    arg_output,     \* Args.output: "None", "Dash" or "Path"
    file,           \* the named output file on disk: [exists, content]
    file_before,    \* that file as it was when the program started
    output,         \* the opened sink: "unopened", "stdout" or "file"
    stdout_bytes,   \* what has been written to standard output
    error,          \* the message main() failed with, "" while none
    krate_docs,     \* krate.index[&krate.root].docs
    events,         \* the events the Parser yields for root_docs
    pos,            \* how many of them the for loop has taken
    state,          \* the pulldown_cmark_to_cmark State carried by the loop
    calls,          \* the serializer calls made so far, in order
    callback_calls, \* invocations of the broken-link callback
    reports,        \* warn!(.. "broken_link") reports emitted
    lib_indented,   \* whether the serializer raises its flag for indented blocks
    text_in,        \* doctest stripping alone: the text of the event
    flag_in,        \* doctest stripping alone: state.is_in_code_block
    text_out,       \* doctest stripping alone: the text of the emitted event
    strip_pc        \* doctest stripping alone: "input" or "emitted"

vars == <<pc, arg_output, file, file_before, output, stdout_bytes, error, krate_docs, events,
          pos, state, calls, callback_calls, reports, lib_indented,
          text_in, flag_in, text_out, strip_pc>>

main_vars == <<pc, arg_output, file, file_before, output, stdout_bytes, error, krate_docs,
               events, pos, state, calls, callback_calls, reports, lib_indented>>

strip_vars == <<text_in, flag_in, text_out, strip_pc>>

-----------------------------------------------------------------------------
(* Bounds *)

MaxEvents == 4
MaxBrokenLinks == 2
MaxTextLen == 4

-----------------------------------------------------------------------------
(* Text: a string is a sequence of one-character strings. *)

NL == "\n"
CR == "\r"
Chars == {"#", " ", "x", NL, CR}

RECURSIVE SeqsUpTo(_, _)
SeqsUpTo(S, n) ==
    IF n = 0 THEN {<<>>}
    ELSE LET shorter == SeqsUpTo(S, n - 1)
         IN  shorter \cup {Append(s, c) : s \in {t \in shorter : Len(t) = n - 1}, c \in S}

\* The index of the first "\n" in s, or 0.
RECURSIVE FirstNL(_, _)
FirstNL(s, i) ==
    IF i > Len(s) THEN 0
    ELSE IF s[i] = NL THEN i
    ELSE FirstNL(s, i + 1)

\* str::split_inclusive('\n'): pieces that keep their terminator; the empty
\* string has no piece.
RECURSIVE SplitInclusive(_)
SplitInclusive(s) ==
    IF s = <<>> THEN <<>>
    ELSE LET i == FirstNL(s, 1)
         IN  IF i = 0 THEN <<s>>
             ELSE <<SubSeq(s, 1, i)>> \o SplitInclusive(SubSeq(s, i + 1, Len(s)))

\* One piece without its "\n", and without the "\r" before that "\n".
StripLineEnding(piece) ==
    IF piece # <<>> /\ piece[Len(piece)] = NL
    THEN LET line == SubSeq(piece, 1, Len(piece) - 1)
         IN  IF line # <<>> /\ line[Len(line)] = CR
             THEN SubSeq(line, 1, Len(line) - 1)
             ELSE line
    ELSE piece

\* str::lines()
Lines(s) ==
    LET pieces == SplitInclusive(s)
    IN  [k \in 1..Len(pieces) |-> StripLineEnding(pieces[k])]

\* line.starts_with("# ")
StartsWithHashSpace(line) ==
    Len(line) >= 2 /\ line[1] = "#" /\ line[2] = " "

KeepLineAnyHash(line) == ~(Len(line) >= 1 /\ line[1] = "#")

\* the filter closure: |line| !line.starts_with("# ")
KeepLine(line) == ~StartsWithHashSpace(line)

\* Itertools::join("\n")
RECURSIVE JoinNL(_)
JoinNL(ls) ==
    IF ls = <<>> THEN <<>>
    ELSE IF Len(ls) = 1 THEN ls[1]
    ELSE ls[1] \o <<NL>> \o JoinNL(Tail(ls))

\* code_block.lines().filter(..).join("\n")
StripDoctest(text) == JoinNL(SelectSeq(Lines(text), KeepLine))

-----------------------------------------------------------------------------
(* Events *)

DefaultHint == "rust"

StartFenced(h) == [kind |-> "Start", tag |-> "Fenced", hint |-> h, text |-> <<>>]
StartIndented  == [kind |-> "Start", tag |-> "Indented", hint |-> "", text |-> <<>>]
StartQuote     == [kind |-> "Start", tag |-> "BlockQuote", hint |-> "", text |-> <<>>]
EndOf(start)   == [start EXCEPT !.kind = "End"]
Text(t)        == [kind |-> "Text", tag |-> "", hint |-> "", text |-> t]
Rule           == [kind |-> "Rule", tag |-> "", hint |-> "", text |-> <<>>]
NoEvent        == [kind |-> "None", tag |-> "", hint |-> "", text |-> <<>>]

IsCodeBlock(e) == e.tag \in {"Fenced", "Indented"}

Hints == {"", "py"}

\* Texts the parser hands over in the pipeline runs.
TextPool == { <<"#", " ", "x", NL, "x", NL>>, <<"#", " ", "x", NL>> }

TransformTagAll(event, in_code_block) ==
    IF event.kind = "Start" /\ event.tag = "Fenced"
    THEN [event EXCEPT !.hint = DefaultHint]
    ELSE IF event.kind = "Text" /\ in_code_block
    THEN [event EXCEPT !.text = StripDoctest(event.text)]
    ELSE event

\* The match on &event in the loop body.
Transform(event, in_code_block) ==
    IF event.kind = "Start" /\ event.tag = "Fenced" /\ event.hint = ""
    THEN [event EXCEPT !.hint = DefaultHint]
    ELSE IF event.kind = "Text" /\ in_code_block
    THEN [event EXCEPT !.text = StripDoctest(event.text)]
    ELSE event

Starts == {StartFenced(h) : h \in Hints} \cup {StartIndented, StartQuote}

\* Event streams as the Parser yields them: every Start has its End, in nesting
\* order, and a code block holds text only.
ExtendStream(p) ==
    LET evs    == p.evs
        stack  == p.stack
        top    == IF stack = <<>> THEN NoEvent ELSE stack[Len(stack)]
        inCode == stack # <<>> /\ IsCodeBlock(top)
        closes == IF stack = <<>> THEN {}
                  ELSE {[evs |-> Append(evs, EndOf(top)),
                         stack |-> SubSeq(stack, 1, Len(stack) - 1)]}
        texts  == {[evs |-> Append(evs, Text(t)), stack |-> stack] : t \in TextPool}
        opens  == IF inCode THEN {}
                  ELSE {[evs |-> Append(evs, s), stack |-> Append(stack, s)] : s \in Starts}
        rules  == IF inCode THEN {}
                  ELSE {[evs |-> Append(evs, Rule), stack |-> stack]}
    IN  closes \cup texts \cup opens \cup rules

RECURSIVE PartialStreams(_)
PartialStreams(n) ==
    IF n = 0 THEN {[evs |-> <<>>, stack |-> <<>>]}
    ELSE LET shorter == PartialStreams(n - 1)
         IN  shorter \cup
             UNION {ExtendStream(p) : p \in {q \in shorter : Len(q.evs) = n - 1}}

EventStreams == {p.evs : p \in {q \in PartialStreams(MaxEvents) : q.stack = <<>>}}

\* Option<String> of the root item, with the events its text parses to; the
\* empty string parses to no event.
DocsNone  == [present |-> FALSE, empty |-> FALSE, events |-> <<>>]
DocsEmpty == [present |-> TRUE, empty |-> TRUE, events |-> <<>>]
DocsChoices ==
    {DocsNone, DocsEmpty} \cup
    {[present |-> TRUE, empty |-> FALSE, events |-> e] : e \in EventStreams}

-----------------------------------------------------------------------------
(* The serializer and the sink *)

\* pulldown_cmark_to_cmark::State::default()
StateDefault == [is_in_code_block |-> FALSE, absorbed |-> 0]

\* The State cmark_resume returns for one event. The flag rises on a fenced
\* code block's start and falls on a code block's end; whether an indented
\* code block raises it too is the crate's choice (indented_sets).
cmark_resume(event, st, indented_sets) ==
    [is_in_code_block |->
        IF event.kind = "Start" /\ event.tag = "Fenced" THEN TRUE
        ELSE IF event.kind = "Start" /\ event.tag = "Indented"
             THEN (indented_sets \/ st.is_in_code_block)
        ELSE IF event.kind = "End" /\ IsCodeBlock(event) THEN FALSE
        ELSE st.is_in_code_block,
     absorbed |-> st.absorbed + 1]

OldChunk         == [src |-> "old", event |-> NoEvent, whole |-> TRUE]
AppendChunk(e)   == [src |-> "append", event |-> e, whole |-> TRUE]
PartialChunk(e)  == [src |-> "append", event |-> e, whole |-> FALSE]
FinalizeChunk    == [src |-> "finalize", event |-> NoEvent, whole |-> TRUE]

FileAbsent == [exists |-> FALSE, content |-> <<>>]
FileOld    == [exists |-> TRUE, content |-> <<OldChunk>>]

CreateFileKeep(f) == [exists |-> TRUE, content |-> f.content]

\* File::create(path): the file exists afterwards and is empty.
CreateFile(f) == [exists |-> TRUE, content |-> <<>>]

\* What this run has written to its sink.
SinkBytes == IF output = "file" THEN file.content ELSE stdout_bytes

\* io::Write on the boxed sink.
Write(bytes) ==
    IF output = "file"
    THEN file' = [file EXCEPT !.content = @ \o bytes] /\ UNCHANGED stdout_bytes
    ELSE stdout_bytes' = stdout_bytes \o bytes /\ UNCHANGED file

Fail(msg) == pc' = "failed" /\ error' = msg

ErrMetadata  == "couldn't execute cargo metadata command"
ErrOpenOut   == "couldn't open output file"
ErrBuild     == "rustdoc json build failed"
ErrOpenJson  == "couldn't open file containing rustdoc-json"
ErrBadJson   == "couldn't deserialize rustdoc json"
ErrNoDocs    == "root does not have any documentation"
ErrWrite     == "couldn't write output"

-----------------------------------------------------------------------------
(* main() *)

MainInit ==
    /\ pc = "metadata"
    /\ arg_output \in {"None", "Dash", "Path"}
    /\ file \in {FileAbsent, FileOld}
    /\ file_before = file
    /\ output = "unopened"
    /\ stdout_bytes = <<>>
    /\ error = ""
    /\ krate_docs = DocsNone
    /\ events = <<>>
    /\ pos = 0
    /\ state = StateDefault
    /\ calls = <<>>
    /\ callback_calls = 0
    /\ reports = 0
    /\ lib_indented \in BOOLEAN

\* manifest.metadata() .. .exec()
ExecMetadata ==
    /\ pc = "metadata"
    /\ \E ok \in BOOLEAN :
         IF ok THEN pc' = "open_output" /\ UNCHANGED error
         ELSE Fail(ErrMetadata)
    /\ UNCHANGED <<arg_output, file_before, file, output, stdout_bytes, krate_docs, events, pos,
                   state, calls, callback_calls, reports, lib_indented>>

\* let output: Box<dyn io::Write> = match output { .. }
OpenOutput ==
    /\ pc = "open_output"
    /\ IF arg_output \in {"None", "Dash"}
       THEN /\ output' = "stdout"
            /\ pc' = "build"
            /\ UNCHANGED <<file, error>>
       ELSE \E ok \in BOOLEAN :
              IF ok
              THEN /\ file' = CreateFile(file)
                   /\ output' = "file"
                   /\ pc' = "build"
                   /\ UNCHANGED error
              ELSE Fail(ErrOpenOut) /\ UNCHANGED <<file, output>>
    /\ UNCHANGED <<arg_output, file_before, stdout_bytes, krate_docs, events, pos, state, calls,
                   callback_calls, reports, lib_indented>>

\* json_builder .. .build()?
BuildJson ==
    /\ pc = "build"
    /\ \E ok \in BOOLEAN :
         IF ok THEN pc' = "read_json" /\ UNCHANGED error
         ELSE Fail(ErrBuild)
    /\ UNCHANGED <<arg_output, file_before, file, output, stdout_bytes, krate_docs, events, pos,
                   state, calls, callback_calls, reports, lib_indented>>

\* File::open(json_path) and serde_json::from_reader
ReadJson ==
    /\ pc = "read_json"
    /\ \/ Fail(ErrOpenJson) /\ UNCHANGED krate_docs
       \/ Fail(ErrBadJson) /\ UNCHANGED krate_docs
       \/ \E d \in DocsChoices :
            /\ krate_docs' = d
            /\ pc' = "root_docs"
            /\ UNCHANGED error
    /\ UNCHANGED <<arg_output, file_before, file, output, stdout_bytes, events, pos, state, calls,
                   callback_calls, reports, lib_indented>>

RootDocsMissingOrEmpty(docs) == ~docs.present \/ docs.empty

RootDocsNeverMissing(docs) == FALSE

\* the else branch of: let Some(root_docs) = &krate.index[&krate.root].docs
RootDocsMissing(docs) == ~docs.present

\* the let-else on the root docs, State::default(), and Parser::new_..(root_docs, ..)
RootDocs ==
    /\ pc = "root_docs"
    /\ IF RootDocsMissing(krate_docs)
       THEN Fail(ErrNoDocs) /\ UNCHANGED <<events, state>>
       ELSE /\ events' = krate_docs.events
            /\ state' = StateDefault
            /\ pc' = "loop"
            /\ UNCHANGED error
    /\ UNCHANGED <<arg_output, file_before, file, output, stdout_bytes, krate_docs, pos, calls,
                   callback_calls, reports, lib_indented>>

\* Whether evs[i] lies inside a code block of evs.
InsideCodeBlock(evs, i) ==
    \E j \in 1..(i - 1) :
        /\ evs[j].kind = "Start" /\ IsCodeBlock(evs[j])
        /\ \A k \in (j + 1)..(i - 1) : ~(evs[k].kind = "End" /\ IsCodeBlock(evs[k]))

BrokenLinkCallbackSilent ==
    /\ pc = "loop"
    /\ pos < Len(events)
    /\ events[pos + 1].kind = "Text" /\ ~InsideCodeBlock(events, pos + 1)
    /\ callback_calls < MaxBrokenLinks
    /\ callback_calls' = callback_calls + 1
    /\ UNCHANGED <<pc, arg_output, file, file_before, output, stdout_bytes, error, krate_docs,
                   events, pos, state, calls, reports, lib_indented>>

\* The closure given to Parser::new_with_broken_link_callback, run while the
\* parser works out the next event of a paragraph: warn!(..) and None, so the
\* parser keeps the literal text.
BrokenLinkCallback ==
    /\ pc = "loop"
    /\ pos < Len(events)
    /\ events[pos + 1].kind = "Text" /\ ~InsideCodeBlock(events, pos + 1)
    /\ callback_calls < MaxBrokenLinks
    /\ callback_calls' = callback_calls + 1
    /\ reports' = reports + 1
    /\ UNCHANGED <<pc, arg_output, file, file_before, output, stdout_bytes, error, krate_docs,
                   events, pos, state, calls, lib_indented>>

ResumeFromDefault(st) == StateDefault

\* Some(state): the State the loop hands to cmark_resume.
ResumeFrom(st) == st

LoopIterationRetry ==
    /\ pc = "loop"
    /\ pos < Len(events)
    /\ LET source == events[pos + 1]
           event  == Transform(source, state.is_in_code_block)
           st_in  == ResumeFrom(state)
           st_out == cmark_resume(event, st_in, lib_indented)
       IN  \E ok \in BOOLEAN :
             IF ok
             THEN /\ Write(<<AppendChunk(event)>>)
                  /\ state' = st_out
                  /\ calls' = Append(calls, [op |-> "append", source |-> source,
                                             event |-> event, state_in |-> st_in,
                                             state_out |-> st_out, ok |-> TRUE])
                  /\ pos' = pos + 1
                  /\ UNCHANGED <<pc, error>>
             ELSE \E partial \in BOOLEAN :
                  /\ Write(IF partial THEN <<PartialChunk(event)>> ELSE <<>>)
                  /\ calls' = Append(calls, [op |-> "append", source |-> source,
                                             event |-> event, state_in |-> st_in,
                                             state_out |-> st_in, ok |-> FALSE])
                  /\ UNCHANGED <<pc, error, pos, state>>
    /\ UNCHANGED <<arg_output, file_before, output, krate_docs, events, callback_calls, reports,
                   lib_indented>>

LoopIterationSkipEmpty ==
    /\ pc = "loop"
    /\ pos < Len(events)
    /\ LET source == events[pos + 1]
           event  == Transform(source, state.is_in_code_block)
           st_in  == ResumeFrom(state)
           st_out == cmark_resume(event, st_in, lib_indented)
       IN  IF event.kind = "Text" /\ event.text = <<>>
           THEN /\ pos' = pos + 1
                /\ UNCHANGED <<pc, error, state, calls, file, stdout_bytes>>
           ELSE \E ok \in BOOLEAN :
             IF ok
             THEN /\ Write(<<AppendChunk(event)>>)
                  /\ state' = st_out
                  /\ calls' = Append(calls, [op |-> "append", source |-> source,
                                             event |-> event, state_in |-> st_in,
                                             state_out |-> st_out, ok |-> TRUE])
                  /\ pos' = pos + 1
                  /\ UNCHANGED <<pc, error>>
             ELSE \E partial \in BOOLEAN :
                  /\ Write(IF partial THEN <<PartialChunk(event)>> ELSE <<>>)
                  /\ calls' = Append(calls, [op |-> "append", source |-> source,
                                             event |-> event, state_in |-> st_in,
                                             state_out |-> st_in, ok |-> FALSE])
                  /\ pos' = pos + 1
                  /\ Fail(ErrWrite)
                  /\ UNCHANGED state
    /\ UNCHANGED <<arg_output, file_before, output, krate_docs, events, callback_calls, reports,
                   lib_indented>>

\* One turn of the for loop: the parser's next event, the match that rewrites
\* it, and cmark_resume(once(event), output, Some(state))? into state.
LoopIteration ==
    /\ pc = "loop"
    /\ pos < Len(events)
    /\ LET source == events[pos + 1]
           event  == Transform(source, state.is_in_code_block)
           st_in  == ResumeFrom(state)
           st_out == cmark_resume(event, st_in, lib_indented)
       IN  \E ok \in BOOLEAN :
             IF ok
             THEN /\ Write(<<AppendChunk(event)>>)
                  /\ state' = st_out
                  /\ calls' = Append(calls, [op |-> "append", source |-> source,
                                             event |-> event, state_in |-> st_in,
                                             state_out |-> st_out, ok |-> TRUE])
                  /\ pos' = pos + 1
                  /\ UNCHANGED <<pc, error>>
             ELSE \E partial \in BOOLEAN :
                  /\ Write(IF partial THEN <<PartialChunk(event)>> ELSE <<>>)
                  /\ calls' = Append(calls, [op |-> "append", source |-> source,
                                             event |-> event, state_in |-> st_in,
                                             state_out |-> st_in, ok |-> FALSE])
                  /\ pos' = pos + 1
                  /\ Fail(ErrWrite)
                  /\ UNCHANGED state
    /\ UNCHANGED <<arg_output, file_before, output, krate_docs, events, callback_calls, reports,
                   lib_indented>>

\* The parser is exhausted: state.finalize(output)?, Ok(()), and main returns.
Finalize ==
    /\ pc = "loop"
    /\ pos = Len(events)
    /\ \E ok \in BOOLEAN :
         /\ calls' = Append(calls, [op |-> "finalize", source |-> NoEvent,
                                    event |-> NoEvent, state_in |-> state,
                                    state_out |-> state, ok |-> ok])
         /\ IF ok
            THEN Write(<<FinalizeChunk>>) /\ pc' = "done" /\ UNCHANGED error
            ELSE Fail(ErrWrite) /\ UNCHANGED <<file, stdout_bytes>>
    /\ UNCHANGED <<arg_output, file_before, output, krate_docs, events, pos, state,
                   callback_calls, reports, lib_indented>>

StripIdle ==
    /\ text_in = <<>>
    /\ flag_in = FALSE
    /\ text_out = <<>>
    /\ strip_pc = "idle"

Init == MainInit /\ StripIdle

Next ==
    \/ ExecMetadata /\ UNCHANGED strip_vars
    \/ OpenOutput /\ UNCHANGED strip_vars
    \/ BuildJson /\ UNCHANGED strip_vars
    \/ ReadJson /\ UNCHANGED strip_vars
    \/ RootDocs /\ UNCHANGED strip_vars
    \/ BrokenLinkCallback /\ UNCHANGED strip_vars
    \/ LoopIteration /\ UNCHANGED strip_vars
    \/ Finalize /\ UNCHANGED strip_vars

Spec == Init /\ [][Next]_vars

-----------------------------------------------------------------------------
(* The rewrite of one text event, over every short text *)

ExampleText ==
    <<"#", " ", "s", "e", "t", "u", "p", "(", ")", ";", NL, "f", "n", " ", "m", "a",
      "i", "n", "(", ")", " ", "{", "}", NL, "#", " ", "t", "e", "a", "r", "d", "o",
      "w", "n", "(", ")", ";">>

ExampleStripped ==
    <<"f", "n", " ", "m", "a", "i", "n", "(", ")", " ", "{", "}">>

Texts == SeqsUpTo(Chars, MaxTextLen) \cup {ExampleText}

MainIdle ==
    /\ pc = "idle"
    /\ arg_output = "None"
    /\ file = FileAbsent
    /\ file_before = FileAbsent
    /\ output = "unopened"
    /\ stdout_bytes = <<>>
    /\ error = ""
    /\ krate_docs = DocsNone
    /\ events = <<>>
    /\ pos = 0
    /\ state = StateDefault
    /\ calls = <<>>
    /\ callback_calls = 0
    /\ reports = 0
    /\ lib_indented = FALSE

StripInit ==
    /\ MainIdle
    /\ text_in \in Texts
    /\ flag_in \in BOOLEAN
    /\ text_out = <<>>
    /\ strip_pc = "input"

\* The match on one Event::Text(text_in) with state.is_in_code_block = flag_in.
StripStep ==
    /\ strip_pc = "input"
    /\ text_out' = Transform(Text(text_in), flag_in).text
    /\ strip_pc' = "emitted"
    /\ UNCHANGED <<text_in, flag_in>>
    /\ UNCHANGED main_vars

StripNext == StripStep

SpecStrip == StripInit /\ [][StripNext]_vars

-----------------------------------------------------------------------------
(* Properties *)

\* The append calls among the serializer calls.
Appends == SelectSeq(calls, LAMBDA c : c.op = "append")

\* The line endings of t: every "\n", and the end of t when t does not end
\* in one.
C1_Ends(t) ==
    {i \in 1..Len(t) : t[i] = NL} \cup
    (IF t # <<>> /\ t[Len(t)] # NL THEN {Len(t) + 1} ELSE {})

\* The line of t that ends at e: from after the line ending before e up to e,
\* less the "\r" of a "\r\n".
C1_LineAt(t, e) ==
    LET before == {d \in C1_Ends(t) : d < e}
        from   == IF before = {} THEN 1
                  ELSE 1 + CHOOSE d \in before : \A d2 \in before : d2 <= d
        raw    == SubSeq(t, from, e - 1)
    IN  IF e <= Len(t) /\ raw # <<>> /\ raw[Len(raw)] = CR
        THEN SubSeq(raw, 1, Len(raw) - 1)
        ELSE raw

\* The line endings of the lines that do not begin with hash, space.
C1_KeptEnds(t) ==
    {e \in C1_Ends(t) :
        LET l == C1_LineAt(t, e)
        IN  ~(Len(l) >= 2 /\ SubSeq(l, 1, 2) = <<"#", " ">>)}

\* Where the kept line ending at e starts in the output, less one: the kept
\* lines before it, each with one separator.
RECURSIVE C1_Width(_, _)
C1_Width(t, ends) ==
    IF ends = {} THEN 0
    ELSE LET e == CHOOSE x \in ends : TRUE
         IN  Len(C1_LineAt(t, e)) + 1 + C1_Width(t, ends \ {e})

C1_Offset(t, e) == C1_Width(t, {d \in C1_KeptEnds(t) : d < e})

\* out is the kept lines of t in order, one "\n" between two of them.
C1_IsKeptLinesJoined(t, out) ==
    LET kept == C1_KeptEnds(t)
    IN  /\ Len(out) = IF kept = {} THEN 0 ELSE C1_Width(t, kept) - 1
        /\ \A e \in kept :
             LET l   == C1_LineAt(t, e)
                 off == C1_Offset(t, e)
             IN  /\ off + Len(l) <= Len(out)
                 /\ SubSeq(out, off + 1, off + Len(l)) = l
                 /\ (\E d \in kept : d > e) =>
                        (off + Len(l) + 1 <= Len(out) /\ out[off + Len(l) + 1] = NL)

\* C1: a text event met while is_in_code_block is true is emitted as its lines
\* in order, without the lines that begin with "# ", joined by single "\n";
\* the documented example comes out as "fn main() {}" and a line "#" is kept.
C1_DoctestStripping ==
    (strip_pc = "emitted" /\ flag_in) =>
        /\ C1_IsKeptLinesJoined(text_in, text_out)
        /\ (text_in = ExampleText => text_out = ExampleStripped)
        /\ (text_in = <<"#">> => text_out = <<"#">>)
        /\ (text_in = <<"#", NL, "#", " ">> => text_out = <<"#">>)

C1_Witness ==
    /\ strip_pc = "emitted" /\ flag_in
    /\ text_in = ExampleText
    /\ text_out = ExampleStripped

\* C2: a fenced code block start with the empty hint is handed on as a fenced
\* code block start with hint "rust"; with any other hint it is handed on with
\* that hint.
C2_FenceTagging ==
    \A i \in 1..Len(Appends) :
        LET c == Appends[i]
        IN  (c.source.kind = "Start" /\ c.source.tag = "Fenced") =>
                /\ c.event.kind = "Start" /\ c.event.tag = "Fenced"
                /\ c.event.hint = IF c.source.hint = "" THEN "rust" ELSE c.source.hint

C2_Witness ==
    /\ \E i \in 1..Len(Appends) :
         Appends[i].source = StartFenced("") /\ Appends[i].event = StartFenced("rust")
    /\ \E i \in 1..Len(Appends) :
         Appends[i].source = StartFenced("py") /\ Appends[i].event = StartFenced("py")

\* C3: with the root item's docs absent the run fails with "root does not have
\* any documentation", and no serializer call has been made and nothing has
\* been written to the sink.
C3_MissingDocs ==
    /\ (~krate_docs.present /\ pc \notin {"metadata", "open_output", "build",
                                          "read_json", "root_docs"}) =>
            (pc = "failed" /\ error # ErrWrite)
    /\ (pc = "failed" /\ error = ErrNoDocs) =>
            /\ ~krate_docs.present
            /\ calls = <<>>
            /\ SinkBytes = <<>>
            /\ stdout_bytes = <<>>
            /\ pos = 0

C3_Witness ==
    /\ pc = "failed" /\ error = ErrNoDocs
    /\ output = "file"
    /\ file.content = <<>>
    /\ calls = <<>>

\* C4 as claimed: with the root item's docs present and empty the run fails
\* with "root does not have any documentation" and the loop is not entered.
C4_EmptyDocsFail ==
    (krate_docs.present /\ krate_docs.empty) =>
        \/ pc = "root_docs"
        \/ (pc = "failed" /\ error = ErrNoDocs)

\* C4 as amended: with the root item's docs present and empty the run does not
\* fail for lack of documentation; the loop is entered over no event, no
\* append is made, finalize is called once on the default state, and the run
\* ends well unless that finalize fails to write.
C4_EmptyDocsSucceed ==
    (krate_docs.present /\ krate_docs.empty) =>
        /\ pc \in {"root_docs", "loop", "done", "failed"}
        /\ error # ErrNoDocs
        /\ pc # "root_docs" => events = <<>>
        /\ Appends = <<>>
        /\ pc = "loop" => calls = <<>>
        /\ pc \in {"done", "failed"} =>
              /\ Len(calls) = 1
              /\ calls[1].op = "finalize"
              /\ calls[1].state_in = StateDefault
              /\ calls[1].ok = (pc = "done")
        /\ pc = "failed" => error = ErrWrite
        /\ pc = "done" => SinkBytes = <<FinalizeChunk>>

C4_Witness ==
    /\ krate_docs.present /\ krate_docs.empty
    /\ pc = "done"
    /\ error = ""

C6_CallbackStep ==
    (callback_calls' # callback_calls) =>
        /\ callback_calls' = callback_calls + 1
        /\ reports' = reports + 1
        /\ UNCHANGED <<pc, error, krate_docs, events, pos, state, calls, file,
                       stdout_bytes, output>>

\* C6: each run of the broken-link callback emits one report and changes no
\* event, no serializer state, no output and not the course of the run; a run
\* fails in the loop only when a serializer call fails, and one that ends has
\* handed every event to the serializer and then finalized.
C6_BrokenLinksTolerated ==
    /\ [][C6_CallbackStep]_vars
    /\ [](reports = callback_calls)
    /\ []((pc = "failed" /\ error = ErrWrite) =>
             (calls # <<>> /\ ~calls[Len(calls)].ok))
    /\ []((pc = "failed" /\ callback_calls > 0) => error = ErrWrite)
    /\ [](pc = "done" =>
             /\ error = ""
             /\ pos = Len(events)
             /\ Len(Appends) = Len(events)
             /\ calls[Len(calls)].op = "finalize"
             /\ \A i \in 1..Len(calls) : calls[i].ok)

C6_Witness ==
    /\ pc = "done"
    /\ callback_calls >= 1
    /\ reports = callback_calls
    /\ Len(events) >= 2

\* C7: the events handed to the serializer are as many as the events taken
\* from the parser; the i-th is the rewrite of the i-th, of the same kind and
\* tag, and identical unless it is a start or a text.
C7_OneToOne ==
    /\ Len(Appends) = pos
    /\ pos <= Len(events)
    /\ \A i \in 1..Len(Appends) :
         LET c == Appends[i]
         IN  /\ c.source = events[i]
             /\ c.event = Transform(events[i], c.state_in.is_in_code_block)
             /\ c.event.kind = c.source.kind
             /\ c.event.tag = c.source.tag
             /\ c.source.kind \notin {"Start", "Text"} => c.event = c.source
             /\ c.source.kind = "Start" => c.event.text = c.source.text
             /\ c.source.kind = "Text" => c.event.hint = c.source.hint

C7_Witness ==
    /\ pos >= 3
    /\ Len(Appends) = pos
    /\ \E i \in 1..(Len(Appends) - 1) :
         /\ Appends[i].source.kind = "Text"
         /\ Appends[i].source.text # <<>>
         /\ Appends[i].event = Text(<<>>)
         /\ Appends[i].ok

\* C8: the serializer calls are append for each event in order and then one
\* finalize; the first is given the default state and each later one the state
\* the call before it returned, so that no state is skipped or given twice.
C8_SerializerProtocol ==
    /\ \A i \in 1..Len(calls) :
         /\ calls[i].state_in = IF i = 1 THEN StateDefault ELSE calls[i - 1].state_out
         /\ \A j \in 1..Len(calls) :
              (j # i /\ calls[j].op = "append" /\ calls[i].op = "append") =>
                  calls[j].state_in # calls[i].state_in
         /\ calls[i].op = "append" => (i <= Len(events) /\ calls[i].source = events[i])
         /\ calls[i].op = "finalize" =>
              (i = Len(calls) /\ i = Len(events) + 1 /\ pc \in {"done", "failed"})
         /\ (calls[i].ok /\ calls[i].op = "append") =>
              calls[i].state_out =
                  cmark_resume(calls[i].event, calls[i].state_in, lib_indented)
    /\ pc = "loop" => state = IF calls = <<>> THEN StateDefault
                              ELSE calls[Len(calls)].state_out
    /\ pc = "done" =>
         /\ Len(calls) = Len(events) + 1
         /\ calls[Len(calls)].op = "finalize"
         /\ calls[Len(calls)].state_in = state
         /\ pos = Len(events)

C8_Witness ==
    /\ pc = "done"
    /\ Len(events) >= 3
    /\ Len(calls) = Len(events) + 1

\* C9: when append fails on event k the run is over with "couldn't write
\* output": that call is the last serializer call, k events and no more have
\* been taken from the parser, finalize is not called, and the sink holds the
\* output of events 1..k-1 as written, followed at most by part of event k's.
C9_AppendFailureFinal ==
    \A k \in 1..Len(calls) :
        (calls[k].op = "append" /\ ~calls[k].ok) =>
            /\ k = Len(calls)
            /\ pc = "failed" /\ error = ErrWrite
            /\ pos = k
            /\ \A i \in 1..Len(calls) : calls[i].op # "finalize"
            /\ Len(SinkBytes) \in {k - 1, k}
            /\ \A i \in 1..(k - 1) :
                 calls[i].ok /\ SinkBytes[i] = AppendChunk(calls[i].event)
            /\ Len(SinkBytes) = k => SinkBytes[k] = PartialChunk(calls[k].event)

C9_Witness ==
    /\ pc = "failed" /\ error = ErrWrite
    /\ Len(calls) = 3
    /\ calls[3].op = "append" /\ ~calls[3].ok
    /\ Len(events) = 4
    /\ output = "file"
    /\ Len(file.content) = 2

\* C10: with a named output file, the file is created or truncated before the
\* build, the reading of the JSON and the check of the root docs, so a run that
\* fails at one of these ends with the file there and empty.
C10_OutputFileFirst ==
    arg_output = "Path" =>
        /\ pc \in {"build", "read_json", "root_docs"} =>
              (output = "file" /\ file.exists /\ file.content = <<>>)
        /\ (pc = "failed" /\ error \in {ErrBuild, ErrOpenJson, ErrBadJson, ErrNoDocs}) =>
              (output = "file" /\ file.exists /\ file.content = <<>>)

C10_Witness ==
    /\ arg_output = "Path"
    /\ file_before = FileOld
    /\ pc = "failed" /\ error = ErrBuild
    /\ file.exists /\ file.content = <<>>

====
